---- MODULE Spec2Model ----
(***************************************************************************)
(* ts::xml::Node (tsxmlNode.cpp): the tree of XML nodes, whose children    *)
(* are kept in an intrusive ring anchored at _firstChild, and the          *)
(* recursive descent of Node::parseContinue over the candidates that the   *)
(* parser identifies.                                                      *)
(*                                                                         *)
(* Nodes are addresses 1..N; address 0 is the null pointer.                *)
(***************************************************************************)
EXTENDS Integers, Sequences, FiniteSets, TLC

\* ------------------------------------------------------------------ bounds
\* Nodes that may be alive at once under SpecTree.
MaxNodes == 3
\* Length of the token stream under SpecParse.
MaxTokens == 4

Max2(a, b) == IF a > b THEN a ELSE b

\* Every address of the heap: the Document plus one candidate per token, or
\* the nodes of SpecTree.
NodeIds == 1 .. Max2(MaxNodes, MaxTokens + 1)
\* Pointers: an address or null.
Ptrs == NodeIds \cup {0}
\* Iterations that any walk over the heap needs at most.
Fuel == Cardinality(NodeIds) + 1

VARIABLES
    alive,          \* the addresses of constructed, not yet destroyed nodes
    kind,           \* dynamic type: Document, Declaration, Element, Text
    _value,         \* Node::_value
    _parent,        \* Node::_parent
    _firstChild,    \* Node::_firstChild
    _inputLineNum,  \* Node::_inputLineNum
    _closingType,   \* Node::_closingType
    _ring_next,     \* RingNode: next member of the ring
    _ring_previous, \* RingNode: previous member of the ring
    tokens,         \* the input of the parser, a sequence of tokens
    pos,            \* tokens consumed by Parser::identify so far
    stack,          \* active parseContinue calls, innermost first
    errors,         \* what Parser::errorAtLine recorded, in order
    retval          \* what the top-level parseContinue returned, or "none"

heapVars == <<alive, kind, _value, _parent, _firstChild, _inputLineNum,
              _closingType, _ring_next, _ring_previous>>
parseVars == <<tokens, pos, stack, errors, retval>>
vars == <<alive, kind, _value, _parent, _firstChild, _inputLineNum,
          _closingType, _ring_next, _ring_previous,
          tokens, pos, stack, errors, retval>>

\* The heap as one value, so that the methods compose.
Heap ==
    [alive |-> alive, kind |-> kind, value |-> _value, parent |-> _parent,
     firstChild |-> _firstChild, line |-> _inputLineNum,
     closing |-> _closingType, next |-> _ring_next, prev |-> _ring_previous]

SetHeap(h) ==
    /\ alive' = h.alive
    /\ kind' = h.kind
    /\ _value' = h.value
    /\ _parent' = h.parent
    /\ _firstChild' = h.firstChild
    /\ _inputLineNum' = h.line
    /\ _closingType' = h.closing
    /\ _ring_next' = h.next
    /\ _ring_previous' = h.prev

HeapIs(h) ==
    /\ alive = h.alive
    /\ kind = h.kind
    /\ _value = h.value
    /\ _parent = h.parent
    /\ _firstChild = h.firstChild
    /\ _inputLineNum = h.line
    /\ _closingType = h.closing
    /\ _ring_next = h.next
    /\ _ring_previous = h.prev

\* No node constructed yet.
EmptyHeap ==
    [alive |-> {}, kind |-> [n \in NodeIds |-> "Free"],
     value |-> [n \in NodeIds |-> ""], parent |-> [n \in NodeIds |-> 0],
     firstChild |-> [n \in NodeIds |-> 0], line |-> [n \in NodeIds |-> 0],
     closing |-> [n \in NodeIds |-> "OPEN"], next |-> [n \in NodeIds |-> n],
     prev |-> [n \in NodeIds |-> n]]

\* ---------------------------------------------------------------- RingNode
\* The ring of siblings, after the contract of RingNode: insert before an
\* anchor, remove, "alone" when the next link designates the node itself.
ringAlone(h, n) == h.next[n] = n

ringNext(h, n) == h.next[n]

ringRemove(h, n) ==
    LET p == h.prev[n]
        x == h.next[n]
        h1 == [h EXCEPT !.next[p] = x]
        h2 == [h1 EXCEPT !.prev[x] = p]
    IN [h2 EXCEPT !.next[n] = n, !.prev[n] = n]

ringInsertBefore(h, n, anchor) ==
    LET p == h.prev[anchor]
        h1 == [h EXCEPT !.next[p] = n]
        h2 == [h1 EXCEPT !.prev[anchor] = n]
    IN [h2 EXCEPT !.prev[n] = p, !.next[n] = anchor]

\* -------------------------------------------------------------------- Node
\* Node::Node(line): the constructor of the base class, at address n. The
\* dynamic type, the value and the closing type beyond OPEN are set by the
\* derived class and by the parser that creates the node.
NodeCtor(h, n, k, line) ==
    [h EXCEPT !.alive = @ \cup {n},
              !.kind[n] = k,
              !.value[n] = "",
              !.parent[n] = n,
              !.firstChild[n] = 0,
              !.line[n] = line,
              !.closing[n] = "OPEN",
              !.next[n] = n,
              !.prev[n] = n]

\* A detach that forgets the parent's _firstChild.
reparentDetach_keepFirst(h, n) == ringRemove(h, n)

\* A detach that leaves the parent without first child whenever the first
\* child goes.
reparentDetach_firstToNull(h, n) ==
    LET p == h.parent[n]
        h1 == IF h.firstChild[p] = n
              THEN [h EXCEPT !.firstChild[p] = 0]
              ELSE h
    IN ringRemove(h1, n)

\* A detach that takes a node alone in its ring for the only child of its
\* parent, without a look at the parent's _firstChild.
reparentDetach_aloneClears(h, n) ==
    LET p == h.parent[n]
        h1 == IF ringAlone(h, n)
              THEN [h EXCEPT !.firstChild[p] = 0]
              ELSE IF h.firstChild[p] = n
                   THEN [h EXCEPT !.firstChild[p] = ringNext(h, n)]
                   ELSE h
    IN ringRemove(h1, n)

\* reparent, lines 93-102: detach from our parent.
reparentDetach(h, n) ==
    LET p == h.parent[n]
        h1 == IF h.firstChild[p] = n
              THEN [h EXCEPT !.firstChild[p] =
                        IF ringAlone(h, n) THEN 0 ELSE ringNext(h, n)]
              ELSE h
    IN ringRemove(h1, n)

\* An insert that makes the newcomer the first child.
reparentInsert_atFront(h, n) ==
    LET p == h.parent[n]
    IN IF h.firstChild[p] = 0
       THEN [h EXCEPT !.firstChild[p] = n]
       ELSE [ringInsertBefore(h, n, h.firstChild[p]) EXCEPT !.firstChild[p] = n]

\* An insert that always takes the newcomer for the only child.
reparentInsert_onlyChild(h, n) ==
    [h EXCEPT !.firstChild[h.parent[n]] = n]

\* reparent, lines 107-117: insert inside the new parent structure.
reparentInsert(h, n) ==
    LET p == h.parent[n]
    IN IF h.firstChild[p] = 0
       THEN [h EXCEPT !.firstChild[p] = n]
       ELSE ringInsertBefore(h, n, h.firstChild[p])

\* A reparent without the early return of lines 89-91.
reparent_noEarlyReturn(h, n, newParent) ==
    LET h1 == IF h.parent[n] # 0 THEN reparentDetach(h, n) ELSE h
        h2 == [h1 EXCEPT !.parent[n] = newParent]
    IN IF newParent # 0 THEN reparentInsert(h2, n) ELSE h2

\* Node::reparent(newParent).
reparent(h, n, newParent) ==
    IF newParent = h.parent[n]
    THEN h
    ELSE LET h1 == IF h.parent[n] # 0 THEN reparentDetach(h, n) ELSE h
             h2 == [h1 EXCEPT !.parent[n] = newParent]
         IN IF newParent # 0 THEN reparentInsert(h2, n) ELSE h2

\* Node::nextSibling().
nextSibling(h, n) ==
    LET next == ringNext(h, n)
    IN IF next = n \/ (h.parent[n] # 0 /\ next = h.firstChild[h.parent[n]])
       THEN 0
       ELSE next

\* operator delete after the destructor: the address is free again.
Free(h, n) ==
    [h EXCEPT !.alive = @ \ {n},
              !.kind[n] = "Free",
              !.value[n] = "",
              !.parent[n] = 0,
              !.firstChild[n] = 0,
              !.line[n] = 0,
              !.closing[n] = "OPEN",
              !.next[n] = n,
              !.prev[n] = n]

RECURSIVE clearChildren(_, _, _)
RECURSIVE deleteNode(_, _, _)

\* clear(), lines 71-74: while (_firstChild != 0) delete _firstChild.
clearChildren(h, n, fuel) ==
    IF h.firstChild[n] = 0 \/ fuel = 0
    THEN h
    ELSE clearChildren(deleteNode(h, h.firstChild[n], fuel - 1), n, fuel - 1)

\* A clear that leaves the line number as it is.
clear_keepLine(h, n, fuel) ==
    [clearChildren(h, n, fuel) EXCEPT !.value[n] = ""]

\* A clear with an if in place of the while: one child is deleted.
clear_once(h, n, fuel) ==
    LET h1 == IF h.firstChild[n] = 0 \/ fuel = 0
              THEN h
              ELSE deleteNode(h, h.firstChild[n], fuel - 1)
    IN [h1 EXCEPT !.value[n] = "", !.line[n] = 0]

\* Node::clear().
clear(h, n, fuel) ==
    LET h1 == clearChildren(h, n, fuel)
    IN [h1 EXCEPT !.value[n] = "", !.line[n] = 0]

\* A destructor that does not clear the children of the node.
deleteNode_noClear(h, n, fuel) == Free(reparent(h, n, 0), n)

\* A destructor that does not detach the node from its parent.
deleteNode_noDetach(h, n, fuel) == Free(clear(h, n, fuel), n)

\* delete n: Node::~Node() and the release of the storage.
deleteNode(h, n, fuel) ==
    LET h1 == clear(h, n, fuel)
        h2 == reparent(h1, n, 0)
    IN Free(h2, n)

\* --------------------------------------------------------- reading the tree
RECURSIVE walk(_, _, _)
\* The nodes met from n by nextSibling() until it returns null.
walk(h, n, fuel) ==
    IF n = 0 \/ fuel = 0
    THEN <<>>
    ELSE <<n>> \o walk(h, nextSibling(h, n), fuel - 1)

\* for (ch = firstChild(); ch != 0; ch = ch->nextSibling()).
childSeq(h, p) == walk(h, h.firstChild[p], Fuel)

\* The nodes whose parent pointer designates p. A node that was never
\* attached designates itself (constructor) and is no child of itself.
childSet(h, p) == {c \in h.alive : c # p /\ h.parent[c] = p}

RECURSIVE inSubtree(_, _, _, _)
\* Whether x is r or is below r, following parent pointers from x.
inSubtree(h, x, r, fuel) ==
    IF x = r THEN TRUE
    ELSE IF fuel = 0 \/ h.parent[x] = 0 \/ h.parent[x] = x THEN FALSE
    ELSE inSubtree(h, h.parent[x], r, fuel - 1)

\* ----------------------------------------------- the tree, used on its own
\* Document() : Node(1), at address n.
DocumentCtor(h, n) == NodeCtor(h, n, "Document", 1)

\* new Element, named a, on line 1, at the first free address.
Create ==
    /\ Cardinality(alive) < MaxNodes
    /\ LET n == CHOOSE x \in NodeIds \ alive : \A y \in NodeIds \ alive : x <= y
       IN SetHeap([NodeCtor(Heap, n, "Element", 1) EXCEPT !.value[n] = "a"])
    /\ UNCHANGED parseVars

\* n->reparent(p). The tree stays a tree: p is null, or the current parent,
\* or a node outside the subtree of n.
Reparent(n, p) ==
    /\ n \in alive
    /\ p = 0 \/ p = _parent[n] \/ (p \in alive /\ ~inSubtree(Heap, p, n, Fuel))
    /\ SetHeap(reparent(Heap, n, p))
    /\ UNCHANGED parseVars

\* n->clear().
Clear(n) ==
    /\ n \in alive
    /\ SetHeap(clear(Heap, n, Fuel))
    /\ UNCHANGED parseVars

\* delete n.
Destroy(n) ==
    /\ n \in alive
    /\ SetHeap(deleteNode(Heap, n, Fuel))
    /\ UNCHANGED parseVars

InitTree ==
    /\ HeapIs(DocumentCtor(EmptyHeap, 1))
    /\ tokens = <<>>
    /\ pos = 0
    /\ stack = <<>>
    /\ errors = <<>>
    /\ retval = "none"

NextTree ==
    \/ Create
    \/ \E n \in NodeIds, p \in Ptrs : Reparent(n, p)
    \/ \E n \in NodeIds : Clear(n)
    \/ \E n \in NodeIds : Destroy(n)

SpecTree == InitTree /\ [][NextTree]_vars

\* ------------------------------------------------------------ the parser
\* What Parser::identify recognises, one token per line of the input. A
\* token that is not ok is one whose own parseContinue fails (it is
\* malformed); an element in OPEN form has content of its own to parse.
Tok(k, v, c, ok) == [kind |-> k, value |-> v, closing |-> c, ok |-> ok]

Tokens ==
    {Tok("Declaration", "xml", "OPEN", TRUE),
     Tok("Element", "a", "OPEN", TRUE),
     Tok("Element", "b", "OPEN", TRUE),
     Tok("Element", "a", "CLOSED", TRUE),
     Tok("Element", "b", "CLOSED", TRUE),
     Tok("Element", "c", "CLOSED", TRUE),
     Tok("Element", "a", "CLOSING", TRUE),
     Tok("Element", "b", "CLOSING", TRUE),
     Tok("Element", "c", "CLOSING", TRUE),
     Tok("Text", "t", "OPEN", FALSE)}

Inputs == UNION {[1 .. k -> Tokens] : k \in 0 .. MaxTokens}

\* The address of the candidate made from token i, and its line.
NodeOfToken(i) == i + 1
LineOfToken(i) == i

\* Parser::identify on token i: a new node of the token's type, built by
\* the Node constructor, then given its value and closing type.
identify(h, i, t) ==
    LET n == NodeOfToken(i)
        h1 == NodeCtor(h, n, t.kind, LineOfToken(i))
    IN [h1 EXCEPT !.value[n] = t.value, !.closing[n] = t.closing]

\* Whether the candidate's own parseContinue runs the loop of
\* Node::parseContinue over nested candidates: an element in OPEN form.
hasContent(t) == t.kind = "Element" /\ t.closing = "OPEN"

\* Parser::errorAtLine(line, message).
Err(line, msg) == [line |-> line, msg |-> msg]

MsgParsing == "parsing error"
MsgNotInDocument == "misplaced declaration, not directly inside a document"
MsgNotAtBeginning == "misplaced declaration, must be at the beginning of the document"

\* A frame of Node::parseContinue: the context (this), result, the candidate
\* (node), where the call stands, and what the candidate's parse returned.
Frame(ctx) == [ctx |-> ctx, result |-> TRUE, node |-> 0, pc |-> "loop", r |-> TRUE]

\* A scan that looks at the first child only.
declScan_firstOnly(h, ch, node, ok, fuel) ==
    IF ~ok \/ ch = 0 \/ fuel = 0 \/ h.kind[ch] = "Declaration"
    THEN <<>>
    ELSE <<Err(h.line[node], MsgNotAtBeginning)>>

RECURSIVE declScan_noGuard(_, _, _, _, _)
\* A scan that goes on after its first error.
declScan_noGuard(h, ch, node, ok, fuel) ==
    IF ch = 0 \/ fuel = 0
    THEN <<>>
    ELSE IF h.kind[ch] # "Declaration"
         THEN <<Err(h.line[node], MsgNotAtBeginning)>>
                  \o declScan_noGuard(h, nextSibling(h, ch), node, FALSE, fuel - 1)
         ELSE declScan_noGuard(h, nextSibling(h, ch), node, ok, fuel - 1)

RECURSIVE declScan(_, _, _, _, _)
\* parseContinue, lines 165-170: the loop over the preceding nodes, which
\* runs while thisOneOk.
declScan(h, ch, node, ok, fuel) ==
    IF ~ok \/ ch = 0 \/ fuel = 0
    THEN <<>>
    ELSE IF h.kind[ch] # "Declaration"
         THEN <<Err(h.line[node], MsgNotAtBeginning)>>
                  \o declScan(h, nextSibling(h, ch), node, FALSE, fuel - 1)
         ELSE declScan(h, nextSibling(h, ch), node, ok, fuel - 1)

\* A declaration check that scans the preceding nodes whatever the context.
declCheck_scanAlways(h, this, node) ==
    LET e1 == IF h.kind[this] # "Document"
              THEN <<Err(h.line[node], MsgNotInDocument)>>
              ELSE <<>>
    IN e1 \o declScan(h, h.firstChild[this], node, TRUE, Fuel)

\* A declaration check that looks at the context only.
declCheck_contextOnly(h, this, node) ==
    IF h.kind[this] # "Document"
    THEN <<Err(h.line[node], MsgNotInDocument)>>
    ELSE <<>>

\* parseContinue, lines 158-171: the errors reported for a declaration.
declCheck(h, this, node) ==
    LET e1 == IF h.kind[this] # "Document"
              THEN <<Err(h.line[node], MsgNotInDocument)>>
              ELSE <<>>
    IN e1 \o declScan(h, h.firstChild[this], node, e1 = <<>>, Fuel)

\* Checks that say nothing of a failed nested parse.
checkNode_silentNested(h, this, node, r) ==
    IF r /\ h.kind[node] = "Declaration"
    THEN declCheck(h, this, node)
    ELSE <<>>

\* Checks that tag a failed nested parse with the line of the context.
checkNode_ctxLine(h, this, node, r) ==
    IF ~r
    THEN <<Err(h.line[this], MsgParsing)>>
    ELSE IF h.kind[node] = "Declaration"
         THEN declCheck(h, this, node)
         ELSE <<>>

\* parseContinue, lines 146-210: the errors reported for one candidate whose
\* own parseContinue returned r. thisOneOk is false exactly when one is.
checkNode(h, this, node, r) ==
    IF ~r
    THEN <<Err(h.line[node], MsgParsing)>>
    ELSE IF h.kind[node] = "Declaration"
         THEN declCheck(h, this, node)
         ELSE <<>>

\* A result that the rejection of a candidate does not change.
keepResult_ignoresError(result, thisOneOk) == result

\* A result that only remembers the last candidate.
keepResult_lastOnly(result, thisOneOk) == thisOneOk

\* parseContinue, lines 213-219: result after one candidate.
keepResult(result, thisOneOk) == IF thisOneOk THEN result ELSE FALSE

\* A rejection that also discards what the context holds.
insertOrDelete_clearContext(h, this, node, thisOneOk) ==
    IF thisOneOk
    THEN reparent(h, node, this)
    ELSE deleteNode(clear(h, this, Fuel), node, Fuel)

\* A rejection that forgets to delete the candidate.
insertOrDelete_noDelete(h, this, node, thisOneOk) ==
    IF thisOneOk THEN reparent(h, node, this) ELSE h

\* parseContinue, lines 212-219: insert the candidate, or delete it.
insertOrDelete(h, this, node, thisOneOk) ==
    IF thisOneOk THEN reparent(h, node, this) ELSE deleteNode(h, node, Fuel)

Top == Head(stack)

\* Lines 144-149, a candidate without content: identify returns a node and
\* the node's own parseContinue returns at once.
IdentifyLeaf ==
    /\ stack # <<>> /\ Top.pc = "loop" /\ pos < Len(tokens)
    /\ ~hasContent(tokens[pos + 1])
    /\ pos' = pos + 1
    /\ SetHeap(identify(Heap, pos + 1, tokens[pos + 1]))
    /\ stack' = <<[Top EXCEPT !.node = NodeOfToken(pos + 1), !.pc = "judge",
                              !.r = tokens[pos + 1].ok]>> \o Tail(stack)
    /\ UNCHANGED <<tokens, errors, retval>>

\* Lines 144-149, an open element: identify returns a node and the node's
\* own parseContinue starts, with the node as its context.
IdentifyOpen ==
    /\ stack # <<>> /\ Top.pc = "loop" /\ pos < Len(tokens)
    /\ hasContent(tokens[pos + 1])
    /\ pos' = pos + 1
    /\ SetHeap(identify(Heap, pos + 1, tokens[pos + 1]))
    /\ stack' = <<Frame(NodeOfToken(pos + 1)),
                  [Top EXCEPT !.node = NodeOfToken(pos + 1), !.pc = "call"]>>
                    \o Tail(stack)
    /\ UNCHANGED <<tokens, errors, retval>>

\* Lines 144 and 222 in a nested call: identify returns null, the call
\* returns result to the call that made it.
ReturnNested ==
    /\ Len(stack) > 1 /\ Top.pc = "loop" /\ pos = Len(tokens)
    /\ stack' = <<[stack[2] EXCEPT !.pc = "judge", !.r = Top.result]>>
                    \o Tail(Tail(stack))
    /\ UNCHANGED <<heapVars, tokens, pos, errors, retval>>

\* Lines 144 and 222 in the call on the Document.
ReturnTop ==
    /\ Len(stack) = 1 /\ Top.pc = "loop" /\ pos = Len(tokens)
    /\ stack' = <<>>
    /\ retval' = IF Top.result THEN "true" ELSE "false"
    /\ UNCHANGED <<heapVars, tokens, pos, errors>>

\* A loop that returns at the first rejected candidate.
Judge_returnOnError ==
    /\ stack # <<>> /\ Top.pc = "judge"
    /\ LET errs == checkNode(Heap, Top.ctx, Top.node, Top.r)
           thisOneOk == errs = <<>>
       IN /\ errors' = errors \o errs
          /\ SetHeap(insertOrDelete(Heap, Top.ctx, Top.node, thisOneOk))
          /\ IF thisOneOk
             THEN /\ stack' = <<[Top EXCEPT !.node = 0, !.pc = "loop", !.r = TRUE]>>
                                  \o Tail(stack)
                  /\ retval' = retval
             ELSE IF Len(stack) = 1
                  THEN stack' = <<>> /\ retval' = "false"
                  ELSE /\ stack' = <<[stack[2] EXCEPT !.pc = "judge", !.r = FALSE]>>
                                       \o Tail(Tail(stack))
                       /\ retval' = retval
    /\ UNCHANGED <<tokens, pos>>

\* Lines 146-219: the checks on the candidate, then insert or delete.
Judge ==
    /\ stack # <<>> /\ Top.pc = "judge"
    /\ LET errs == checkNode(Heap, Top.ctx, Top.node, Top.r)
           thisOneOk == errs = <<>>
       IN /\ errors' = errors \o errs
          /\ SetHeap(insertOrDelete(Heap, Top.ctx, Top.node, thisOneOk))
          /\ stack' = <<[Top EXCEPT !.result = keepResult(@, thisOneOk),
                                    !.node = 0, !.pc = "loop", !.r = TRUE]>>
                          \o Tail(stack)
    /\ UNCHANGED <<tokens, pos, retval>>

\* Document::parse: an empty Document, about to run parseContinue on some
\* input.
InitParse ==
    /\ HeapIs(DocumentCtor(EmptyHeap, 1))
    /\ tokens \in Inputs
    /\ pos = 0
    /\ stack = <<Frame(1)>>
    /\ errors = <<>>
    /\ retval = "none"

NextParse ==
    \/ IdentifyLeaf
    \/ IdentifyOpen
    \/ ReturnNested
    \/ ReturnTop
    \/ Judge

SpecParse == InitParse /\ [][NextParse]_vars

\* ------------------------------------------------------- claims on the tree
Range(s) == {s[i] : i \in 1 .. Len(s)}
NoDup(s) == \A i, j \in 1 .. Len(s) : i # j => s[i] # s[j]

\* What reparent requires of its target for the tree to stay a tree.
TreeTarget(h, n, p) ==
    p = 0 \/ p = h.parent[n] \/ (p \in h.alive /\ ~inSubtree(h, p, n, Fuel))

\* C1. Ring invariant: from P.firstChild, nextSibling() visits every child of
\* P exactly once and then returns null; a childless node has a null
\* firstChild; a node alone in its ring has no next sibling; the ring of
\* every live node is circular and made of live nodes.
C1_RingInvariant ==
    \A P \in alive :
        LET s == childSeq(Heap, P)
        IN /\ Len(s) < Fuel
           /\ NoDup(s)
           /\ Range(s) = childSet(Heap, P)
           /\ childSet(Heap, P) = {} => _firstChild[P] = 0
           /\ _firstChild[P] # 0 => _firstChild[P] \in alive
           /\ ringAlone(Heap, P) => nextSibling(Heap, P) = 0
           /\ _ring_next[P] \in alive
           /\ _ring_previous[_ring_next[P]] = P

\* A parent with two children, of which the first one is not the lowest
\* address: the ring was built by reparent and re-ordered by a detach.
C1_Witness ==
    \E P \in alive :
        /\ Len(childSeq(Heap, P)) = 2
        /\ childSeq(Heap, P)[1] > childSeq(Heap, P)[2]

\* C2. Single-parent membership: a node is in the children ring of exactly
\* the node its parent pointer records, of no other ring, and a node that
\* records a parent P is a member of the children ring of P.
C2_SingleParent ==
    \A n \in alive :
        /\ _parent[n] # 0 => n \in Range(childSeq(Heap, _parent[n]))
        /\ \A P \in alive : n \in Range(childSeq(Heap, P)) => _parent[n] = P
        /\ _parent[n] = 0 => ringAlone(Heap, n)

C5_ReparentIdempotent ==
    \A n \in alive : \A p \in alive \cup {0} :
        /\ reparent(reparent(Heap, n, p), n, p) = reparent(Heap, n, p)
        /\ p = _parent[n] => reparent(Heap, n, p) = Heap

\* A node attached to a parent, with a sibling after it: to reparent it to
\* that parent again must not move it.
C5_Witness ==
    \E n \in alive :
        /\ _parent[n] \in alive \ {n}
        /\ nextSibling(Heap, n) # 0

\* ----------------------------------------------------- claims on the parser
Done == retval # "none"
TDecl == Tok("Declaration", "xml", "OPEN", TRUE)
TOpen(v) == Tok("Element", v, "OPEN", TRUE)
TSelf(v) == Tok("Element", v, "CLOSED", TRUE)
TClose(v) == Tok("Element", v, "CLOSING", TRUE)
TBad == Tok("Text", "t", "OPEN", FALSE)

\* The values of a sequence of nodes.
valuesOf(s) == [i \in 1 .. Len(s) |-> _value[s[i]]]
\* Attached: the parent pointer designates another node.
Attached(n) == _parent[n] # 0 /\ _parent[n] # n
\* The frame that frame i of the stack is after a step, if it still exists.
Later(i) == i + Len(stack') - Len(stack)

\* A result that is false stays false, and is what the call returns.
ResultKept ==
    /\ \A i \in 1 .. Len(stack) :
        (Later(i) >= 1 /\ ~stack[i].result) => ~stack'[Later(i)].result
    /\ (Len(stack) > 1 /\ Len(stack') < Len(stack)) => stack'[1].r = Top.result
    /\ (Len(stack) = 1 /\ stack' = <<>>) =>
            retval' = IF Top.result THEN "true" ELSE "false"

\* C4. Order preservation: <a/><b/><c/> on an empty Document returns true
\* and leaves the children a, b, c in that order; in general the children of
\* every context are in the order in which their tokens arrived.
C4_OrderPreserved ==
    /\ (Done /\ tokens = <<TSelf("a"), TSelf("b"), TSelf("c")>>) =>
            /\ retval = "true"
            /\ childSeq(Heap, 1) = <<2, 3, 4>>
            /\ valuesOf(childSeq(Heap, 1)) = <<"a", "b", "c">>
    /\ (Done /\ \A i \in 1 .. Len(tokens) : tokens[i] \in {TSelf("a"), TSelf("b"), TSelf("c")}) =>
            /\ retval = "true"
            /\ childSeq(Heap, 1) = [i \in 1 .. Len(tokens) |-> NodeOfToken(i)]
    /\ \A P \in alive :
            LET s == childSeq(Heap, P)
            IN \A i, j \in 1 .. Len(s) : i < j => s[i] < s[j]

C4_Witness ==
    /\ Done
    /\ tokens = <<TSelf("a"), TSelf("b"), TSelf("c")>>
    /\ Len(childSeq(Heap, 1)) = 3

\* The context may take a declaration: it is a Document and all its children
\* are declarations.
DeclAllowed(ctx) ==
    /\ kind[ctx] = "Document"
    /\ \A ch \in childSet(Heap, ctx) : kind[ch] = "Declaration"

\* C6. Declaration placement: a declaration whose own parse succeeded is
\* attached to the context only if the context is a Document whose children
\* are all declarations; otherwise one misplaced-declaration error is
\* reported on its line, it is destroyed without having been attached, and
\* the call returns false. <?xml?><a/> succeeds; <a/><?xml?> and
\* <a><?xml?></a> fail and leave no declaration in the tree.
C6_DeclStep ==
    (stack # <<>> /\ Top.pc = "judge" /\ kind[Top.node] = "Declaration" /\ Top.r) =>
        /\ ~Attached(Top.node)
        /\ Top.node \notin Range(childSeq(Heap, Top.ctx))
        /\ IF DeclAllowed(Top.ctx)
           THEN /\ Top.node \in alive'
                /\ _parent'[Top.node] = Top.ctx
                /\ errors' = errors
                /\ stack'[1].result = Top.result
           ELSE /\ Top.node \notin alive'
                /\ Len(errors') = Len(errors) + 1
                /\ SubSeq(errors', 1, Len(errors)) = errors
                /\ errors'[Len(errors')].line = _inputLineNum[Top.node]
                /\ errors'[Len(errors')].msg \in {MsgNotInDocument, MsgNotAtBeginning}
                /\ stack'[1].result = FALSE

C6_Examples ==
    /\ (Done /\ tokens = <<TDecl, TSelf("a")>>) =>
            retval = "true" /\ valuesOf(childSeq(Heap, 1)) = <<"xml", "a">>
    /\ (Done /\ (tokens = <<TSelf("a"), TDecl>>
                    \/ tokens = <<TOpen("a"), TDecl, TClose("a")>>)) =>
            /\ retval = "false"
            /\ \A n \in alive : kind[n] # "Declaration"
            /\ \E i \in 1 .. Len(errors) :
                    errors[i].msg \in {MsgNotInDocument, MsgNotAtBeginning}

C6_DeclarationPlacement ==
    /\ [][C6_DeclStep /\ ResultKept]_vars
    /\ []C6_Examples

\* A parse that attached one declaration and rejected another.
C6_Witness ==
    /\ Done
    /\ tokens = <<TDecl, TSelf("a"), TDecl>>
    /\ retval = "false"
    /\ Len(errors) = 1

\* C7. Declarations first: every attached declaration is a child of a
\* Document, and among the children of a Document no declaration comes after
\* a node that is not one.
C7_DeclarationsFirst ==
    /\ \A n \in alive :
            (kind[n] = "Declaration" /\ Attached(n)) => kind[_parent[n]] = "Document"
    /\ \A P \in alive :
            kind[P] = "Document" =>
                LET s == childSeq(Heap, P)
                IN \A i, j \in 1 .. Len(s) :
                        (i < j /\ kind[s[j]] = "Declaration") => kind[s[i]] = "Declaration"

\* A Document with two declarations and then an element.
C7_Witness ==
    /\ Len(childSeq(Heap, 1)) = 3
    /\ kind[childSeq(Heap, 1)[2]] = "Declaration"
    /\ kind[childSeq(Heap, 1)[3]] = "Element"

\* C8. Result and diagnostics agree: the call on the Document returns true
\* exactly when errorAtLine was never called; a call whose result is false
\* has an error recorded; the failure of a nested call makes the enclosing
\* call's result false, and a false result is what a call returns.
C8_Agreement ==
    /\ Done => (retval = "true" <=> errors = <<>>)
    /\ \A i \in 1 .. Len(stack) : ~stack[i].result => errors # <<>>

C8_Propagation ==
    /\ (stack # <<>> /\ Top.pc = "judge" /\ ~Top.r) =>
            ~stack'[1].result /\ Len(errors') = Len(errors) + 1
    /\ ResultKept

C8_ResultIffNoError ==
    /\ []C8_Agreement
    /\ [][C8_Propagation]_vars

\* A failed parse in which a nested call failed and the enclosing call
\* reported it.
C8_Witness ==
    /\ Done
    /\ retval = "false"
    /\ \E i, j \in 1 .. Len(errors) :
            errors[i].msg = MsgNotInDocument /\ errors[j].msg = MsgParsing

\* C9. Closing tags never become tree nodes: no attached node is an Element
\* in closing form, and none is left when the parse is over.
C9_NoClosingTagNode ==
    \A n \in alive :
        (kind[n] = "Element" /\ _closingType[n] = "CLOSING") =>
            ~Attached(n) /\ ~Done

\* C10. Tag matching: <a><b></b></a> returns true and a has the one child b;
\* <a><b></c></a> returns false with an error, and no node named c is left;
\* a closing tag with no element open is an error.
C10_TagMatching ==
    /\ (Done /\ tokens = <<TOpen("a"), TOpen("b"), TClose("b"), TClose("a")>>) =>
            /\ retval = "true"
            /\ valuesOf(childSeq(Heap, 1)) = <<"a">>
            /\ valuesOf(childSeq(Heap, 2)) = <<"b">>
    /\ (Done /\ tokens = <<TOpen("a"), TOpen("b"), TClose("c"), TClose("a")>>) =>
            /\ retval = "false"
            /\ errors # <<>>
            /\ \A n \in alive : _value[n] # "c"
    /\ (Done /\ Len(tokens) >= 1 /\ tokens[1] \in {TClose("a"), TClose("b"), TClose("c")}) =>
            retval = "false"

\* C11. Premature end of input: an element in open form that is never
\* closed makes the parse fail with an error.
C11_PrematureEnd ==
    (Done /\ \E i \in 1 .. Len(tokens) :
                /\ tokens[i] \in {TOpen("a"), TOpen("b")}
                /\ \A j \in i + 1 .. Len(tokens) :
                        tokens[j] \notin {TClose("a"), TClose("b"), TClose("c")}) =>
        retval = "false" /\ errors # <<>>

\* What is left to do: tokens to identify, calls to return from, a
\* candidate to judge.
Measure ==
    4 * (Len(tokens) - pos) + 2 * Len(stack)
        + IF stack # <<>> /\ Top.pc = "judge" THEN 1 ELSE 0

\* C12. Best-effort continuation and termination: a call that rejected a
\* candidate goes back to identify; a call returns only when identify
\* yields null; every step brings the parse closer to its end and a step is
\* possible until the call on the Document has returned, and then every
\* token has been consumed.
C12_Step ==
    /\ (stack # <<>> /\ Top.pc = "judge") =>
            /\ Len(stack') = Len(stack)
            /\ stack'[1].pc = "loop"
            /\ stack'[1].ctx = Top.ctx
            /\ pos' = pos
    /\ Len(stack') < Len(stack) => (Top.pc = "loop" /\ pos = Len(tokens))
    /\ Measure' < Measure

\* The innermost call can take a step: identify a token, return at the end
\* of the input, or judge the candidate at hand.
CanStep ==
    /\ stack # <<>>
    /\ \/ Top.pc = "judge" /\ Top.node \in alive
       \/ Top.pc = "loop" /\ pos <= Len(tokens)

C12_State ==
    /\ Measure >= 0
    /\ Done \/ CanStep
    /\ Done => (pos = Len(tokens) /\ stack = <<>>)

C12_ContinuesAndTerminates ==
    /\ [][C12_Step]_vars
    /\ []C12_State

\* A parse that went on after a rejection: the first token was rejected and
\* a later one attached.
C12_Witness ==
    /\ Done
    /\ retval = "false"
    /\ Len(tokens) = MaxTokens
    /\ 2 \notin alive
    /\ NodeOfToken(Len(tokens)) \in alive

\* The errors that a stream without open elements must cause in the
\* Document: one for each malformed token, one for each declaration that
\* comes after a token that was attached and is no declaration.
ExpectedErrors ==
    Cardinality({i \in 1 .. Len(tokens) :
        \/ ~tokens[i].ok
        \/ /\ tokens[i] = TDecl
           /\ \E j \in 1 .. i - 1 : tokens[j].ok /\ tokens[j] # TDecl})

\* C13. Partial-failure accumulation: two independent errors give two
\* entries, and false; in general no entry is dropped or collapsed.
C13_Accumulation ==
    /\ (Done /\ tokens = <<TSelf("a"), TDecl, TDecl>>) =>
            /\ retval = "false"
            /\ Len(errors) = 2
            /\ errors[1] # errors[2]
    /\ (Done /\ \A i \in 1 .. Len(tokens) : ~hasContent(tokens[i])) =>
            /\ Len(errors) = ExpectedErrors
            /\ NoDup(errors)

C13_Witness ==
    /\ Done
    /\ tokens = <<TSelf("a"), TDecl, TDecl>>
    /\ Len(errors) = 2

RECURSIVE subtreeOf(_, _, _)
\* The node r and the nodes below it.
subtreeOf(h, r, fuel) ==
    IF fuel = 0 THEN {r}
    ELSE {r} \cup UNION {subtreeOf(h, c, fuel - 1) : c \in childSet(h, r)}

\* C14. Failed nested parse: the enclosing call reports one error on the
\* candidate's line, destroys the candidate and all that is below it, never
\* attaches it, and returns false.
C14_Step ==
    (stack # <<>> /\ Top.pc = "judge" /\ ~Top.r) =>
        /\ ~Attached(Top.node)
        /\ Top.node \notin Range(childSeq(Heap, Top.ctx))
        /\ errors' = Append(errors, Err(_inputLineNum[Top.node], MsgParsing))
        /\ alive' = alive \ subtreeOf(Heap, Top.node, Fuel)
        /\ childSeq(Heap, Top.ctx)' = childSeq(Heap, Top.ctx)
        /\ stack'[1].result = FALSE

C14_FailedNestedParse == [][C14_Step /\ ResultKept]_vars

\* An element that had a child attached was rejected with it, for an error
\* found inside it.
C14_Witness ==
    /\ Done
    /\ tokens = <<TOpen("a"), TSelf("b"), TDecl>>
    /\ alive = {1}
    /\ Len(errors) = 2
    /\ errors[2] = Err(1, MsgParsing)

\* The pointers of a node all designate live nodes, or are null.
NoDangling(h, n) ==
    /\ h.parent[n] \in h.alive \cup {0}
    /\ h.firstChild[n] \in h.alive \cup {0}
    /\ h.next[n] \in h.alive
    /\ h.prev[n] \in h.alive

\* C15. No leaked or half-attached candidate: when the call on the Document
\* has returned, every live node but the Document is attached to one
\* parent, is met in the children of that parent, and is below the
\* Document; no pointer of a live node designates a destroyed node.
C15_NoLeak ==
    /\ \A n \in alive : NoDangling(Heap, n)
    /\ Done =>
         \A n \in alive \ {1} :
            /\ Attached(n)
            /\ n \in Range(childSeq(Heap, _parent[n]))
            /\ \A P \in alive : n \in Range(childSeq(Heap, P)) => P = _parent[n]
            /\ inSubtree(Heap, n, 1, Fuel)

\* A parse that kept one candidate and destroyed another with its child.
C15_Witness ==
    /\ Done
    /\ tokens = <<TSelf("a"), TOpen("b"), TSelf("c"), TDecl>>
    /\ alive = {1, 2}

\* ------------------------------------------------- claims on the teardown
\* The sequence s without n.
Without(s, n) == SelectSeq(s, LAMBDA x : x # n)

\* The nodes strictly below n.
Below(h, n) == subtreeOf(h, n, Fuel) \ {n}

\* C16. clear(): on any node of any tree clear() terminates, each iteration
\* destroys the node at firstChild after what is below it, and on return the
\* node has no children, an empty value and line 0, and is where it was
\* under its parent.
C16_Clear ==
    \A n \in alive :
        LET h1 == clear(Heap, n, Fuel)
            c == _firstChild[n]
        IN /\ h1.firstChild[n] = 0
           /\ childSet(h1, n) = {}
           /\ h1.value[n] = ""
           /\ h1.line[n] = 0
           /\ h1.alive = alive \ Below(Heap, n)
           /\ h1.parent[n] = _parent[n]
           /\ h1.next[n] = _ring_next[n]
           /\ h1.prev[n] = _ring_previous[n]
           /\ \A P \in h1.alive \ {n} : childSeq(h1, P) = childSeq(Heap, P)
           /\ c # 0 =>
                LET h2 == clear(Heap, c, Fuel)
                    h3 == deleteNode(Heap, c, Fuel)
                IN /\ h2.alive = alive \ Below(Heap, c)
                   /\ h2.firstChild[n] = c
                   /\ h3.alive = alive \ subtreeOf(Heap, c, Fuel)
                   /\ h3.firstChild[n] = nextSibling(Heap, c)
                   /\ childSeq(h3, n) = Tail(childSeq(Heap, n))

\* A node that was cleared stands before its sibling, under the Document.
C16_Witness ==
    /\ childSeq(Heap, 1) = <<2, 3>>
    /\ _inputLineNum[2] = 0
    /\ _value[2] = ""
    /\ _inputLineNum[3] = 1

\* Whether n is as clear() leaves a node.
Cleared(h, n) ==
    h.firstChild[n] = 0 /\ h.value[n] = "" /\ h.line[n] = 0

\* C17. clear() is idempotent: on a node that was just cleared it changes
\* nothing, and two calls leave what one call leaves.
C17_ClearIdempotent ==
    \A n \in alive :
        LET h1 == clear(Heap, n, Fuel)
        IN /\ Cleared(Heap, n) => h1 = Heap
           /\ clear(h1, n, Fuel) = h1

\* A Document that was cleared with two elements in it.
C17_Witness ==
    /\ Cleared(Heap, 1)
    /\ alive = {1}

\* C18. Teardown safety: delete destroys what is below the node, then
\* detaches it, so that the node is in no ring but its own when its storage
\* is released; exactly the node and what is below it are destroyed, and no
\* pointer of a surviving node designates a destroyed node.
C18_TeardownSafety ==
    /\ \A n \in alive : NoDangling(Heap, n)
    /\ \A n \in alive :
        LET h1 == clear(Heap, n, Fuel)
            h2 == reparent(h1, n, 0)
            h3 == deleteNode(Heap, n, Fuel)
            P == _parent[n]
        IN /\ h1.alive = alive \ Below(Heap, n)
           /\ h2.alive = h1.alive
           /\ h2.parent[n] = 0
           /\ h2.firstChild[n] = 0
           /\ h2.next[n] = n /\ h2.prev[n] = n
           /\ \A m \in h2.alive \ {n} :
                /\ h2.next[m] # n /\ h2.prev[m] # n
                /\ h2.firstChild[m] # n /\ h2.parent[m] # n
           /\ h3 = Free(h2, n)
           /\ h3.alive = alive \ subtreeOf(Heap, n, Fuel)
           /\ Cardinality(alive) = Cardinality(h3.alive) + Cardinality(subtreeOf(Heap, n, Fuel))
           /\ \A m \in h3.alive : NoDangling(h3, m)
           /\ Attached(n) => childSeq(h3, P) = Without(childSeq(Heap, P), n)

\* The first of two elements of the Document was destroyed: the second is
\* the first child now.
C18_Witness ==
    /\ alive = {1, 3}
    /\ _parent[3] = 1
    /\ _firstChild[1] = 3
    /\ _ring_next[3] = 3

\* ------------------------------------------------ claims on the candidate
\* The candidate of the innermost call is not met from the context.
Unreachable(node, ctx) ==
    /\ node \notin Range(childSeq(Heap, ctx))
    /\ \A m \in alive \ subtreeOf(Heap, node, Fuel) :
        /\ _firstChild[m] # node
        /\ _ring_next[m] # node /\ _ring_previous[m] # node

\* C19. Attach only after validation: while a candidate is parsed and
\* checked it has no parent and is not met from the context.
C19_CandidateHasNoParent ==
    \A i \in 1 .. Len(stack) :
        stack[i].node # 0 =>
            /\ _parent[stack[i].node] = 0
            /\ Unreachable(stack[i].node, stack[i].ctx)

\* What is left of C19 when the parent of a candidate is left aside: the
\* candidate is not met from the context, and a node comes under a context
\* only by the step that judged it after its own parse returned true, with
\* no error found by the checks.
C19_AttachStep ==
    /\ \A i \in 1 .. Len(stack) :
        stack[i].node # 0 => Unreachable(stack[i].node, stack[i].ctx)
    /\ \A n \in alive' :
        (Attached(n)' /\ ~(n \in alive /\ Attached(n))) =>
            /\ stack # <<>> /\ Top.pc = "judge" /\ Top.node = n
            /\ Top.r
            /\ checkNode(Heap, Top.ctx, n, Top.r) = <<>>
            /\ _parent'[n] = Top.ctx

C19_AttachOnlyAfterValidation == [][C19_AttachStep]_vars

\* C20. Line-number stability: no step of the parse changes the line number
\* of a node, no reparent of a candidate, to the context or to any other
\* target, changes a line number, and every error that is recorded carries
\* the line number of the candidate that is rejected.
C20_Step ==
    /\ \A n \in alive \cap alive' : _inputLineNum'[n] = _inputLineNum[n]
    /\ (stack # <<>> /\ Top.pc = "judge") =>
        \A p \in alive \cup {0} :
            TreeTarget(Heap, Top.node, p) =>
                reparent(Heap, Top.node, p).line = _inputLineNum
    /\ errors' # errors =>
        /\ stack # <<>> /\ Top.pc = "judge"
        /\ Len(errors') = Len(errors) + 1
        /\ SubSeq(errors', 1, Len(errors)) = errors
        /\ errors'[Len(errors')].line = _inputLineNum[Top.node]

C20_LineNumberStability == [][C20_Step]_vars

\* An element of line 1 was rejected for the malformed token of line 2 that
\* it holds: two errors, on line 2 and then on line 1.
C20_Witness ==
    /\ Done
    /\ Len(errors) = 2
    /\ errors[1].line = 2
    /\ errors[2].line = 1

\* ------------------------------------------------- claims on reparent alone
\* The targets other than the node itself and its parent that keep the tree
\* a tree.
OtherTargets(n) ==
    {p \in (alive \cup {0}) \ {n, _parent[n]} : TreeTarget(Heap, n, p)}

Norm(h) ==
    [h EXCEPT !.parent = [n \in NodeIds |-> IF h.parent[n] = n THEN 0 ELSE h.parent[n]]]

\* A constructor that leaves the new node without parent.
NodeCtorNone(h, n, k, line) ==
    [NodeCtor(h, n, k, line) EXCEPT !.parent[n] = 0]

\* The lowest free address.
FreeAddress(h) ==
    CHOOSE x \in NodeIds \ h.alive : \A y \in NodeIds \ h.alive : x <= y

\* The heap after a new element was constructed and put under n.
WithChild(h, n) ==
    LET k == FreeAddress(h)
    IN reparent(NodeCtor(h, k, "Element", 1), k, n)

\* The node m is the same in both heaps.
SameNode(h1, h2, m) ==
    /\ (m \in h1.alive) = (m \in h2.alive)
    /\ h1.kind[m] = h2.kind[m]
    /\ h1.value[m] = h2.value[m]
    /\ h1.parent[m] = h2.parent[m]
    /\ h1.firstChild[m] = h2.firstChild[m]
    /\ h1.line[m] = h2.line[m]
    /\ h1.closing[m] = h2.closing[m]
    /\ h1.next[m] = h2.next[m]
    /\ h1.prev[m] = h2.prev[m]

\* The node m is the same in both heaps, but for its place in its ring.
SameButRing(h1, h2, m) ==
    SameNode([h1 EXCEPT !.next[m] = m, !.prev[m] = m],
             [h2 EXCEPT !.next[m] = m, !.prev[m] = m], m)

\* With and without the sentinel the forest is the same, and every
\* operation that reparents no node to itself leads from the same forest to
\* the same forest.
SameForest ==
    LET g == Norm(Heap)
    IN /\ \A n \in alive :
            /\ childSeq(g, n) = childSeq(Heap, n)
            /\ nextSibling(g, n) = nextSibling(Heap, n)
            /\ Norm(clear(Heap, n, Fuel)) = clear(g, n, Fuel)
            /\ Norm(deleteNode(Heap, n, Fuel)) = deleteNode(g, n, Fuel)
            /\ \A p \in (alive \cup {0}) \ {n} :
                    TreeTarget(Heap, n, p) =>
                        /\ TreeTarget(g, n, p)
                        /\ Norm(reparent(Heap, n, p)) = reparent(g, n, p)
       /\ LET k == FreeAddress(Heap)
          IN Norm(NodeCtor(Heap, k, "Element", 1)) = NodeCtorNone(g, k, "Element", 1)

\* The heaps in which the node n, never attached, has children: the present
\* one if it has some, and the one in which it was given a new child.
FreshWithChildren(n) ==
    {WithChild(Heap, n)} \cup (IF _firstChild[n] # 0 THEN {Heap} ELSE {})

\* reparent(none) on a node that was never attached changes no other node
\* and not its firstChild.
FreshToNone(n) ==
    LET h2 == reparent(Heap, n, 0)
    IN /\ h2.firstChild[n] = _firstChild[n]
       /\ h2.alive = alive
       /\ \A m \in NodeIds \ {n} : SameNode(Heap, h2, m)

\* C22, as it is stated. The sentinel is unobservable, and reparent(P) on a
\* node that was never attached and has children changes neither its
\* firstChild nor any node other than P.
C22_OnlyPChanges ==
    /\ SameForest
    /\ \A n \in alive :
        _parent[n] = n =>
            /\ FreshToNone(n)
            /\ \A h0 \in FreshWithChildren(n) : \A P \in alive \ {n} :
                  TreeTarget(h0, n, P) =>
                    LET h2 == reparent(h0, n, P)
                    IN /\ h2.firstChild[n] = h0.firstChild[n]
                       /\ \A m \in NodeIds \ {n, P} : SameNode(h0, h2, m)

\* C22, amended. The sentinel is unobservable, and reparent(P) on a node
\* that was never attached and has children changes neither its firstChild
\* nor any node other than P and the children of P, of which the first and
\* the last one take the node in their ring: it comes last among them.
C22_SentinelUnobservable ==
    /\ SameForest
    /\ \A n \in alive :
        _parent[n] = n =>
            /\ FreshToNone(n)
            /\ \A h0 \in FreshWithChildren(n) : \A P \in alive \ {n} :
                  TreeTarget(h0, n, P) =>
                    LET h2 == reparent(h0, n, P)
                    IN /\ h2.firstChild[n] = h0.firstChild[n]
                       /\ h2.alive = h0.alive
                       /\ \A m \in NodeIds \ ({n, P} \cup childSet(h0, P)) :
                            SameNode(h0, h2, m)
                       /\ \A c \in childSet(h0, P) : SameButRing(h0, h2, c)
                       /\ SameNode(h0, [h2 EXCEPT !.firstChild[P] = h0.firstChild[P]], P)
                       /\ childSeq(h2, P) = Append(childSeq(h0, P), n)
                       /\ \A m \in h0.alive \ {P} : childSeq(h2, m) = childSeq(h0, m)

\* A node that was never attached has a child, beside the Document.
C22_Witness ==
    /\ alive = {1, 2, 3}
    /\ _parent[1] = 1
    /\ _parent[2] = 2
    /\ childSeq(Heap, 2) = <<3>>

\* The nodes whose ring links n.reparent(p) may write: n, its neighbours in
\* the ring that it leaves, and the first and the last child of p.
RingTouched(h, n, p) ==
    {n, h.next[n], h.prev[n]}
        \cup (IF p # 0 /\ h.firstChild[p] # 0
              THEN {h.firstChild[p], h.prev[h.firstChild[p]]}
              ELSE {})

Rejecting ==
    /\ stack # <<>>
    /\ Top.pc = "judge"
    /\ checkNode(Heap, Top.ctx, Top.node, Top.r) # <<>>

\* The innermost call is about to attach its candidate.
Accepting ==
    /\ stack # <<>>
    /\ Top.pc = "judge"
    /\ checkNode(Heap, Top.ctx, Top.node, Top.r) = <<>>

\* The heap after the step.
HeapAfter ==
    [alive |-> alive', kind |-> kind', value |-> _value', parent |-> _parent',
     firstChild |-> _firstChild', line |-> _inputLineNum',
     closing |-> _closingType', next |-> _ring_next', prev |-> _ring_previous']

\* The context ctx, its children and what is below them are after the step
\* as they were before it.
Untouched(ctx) ==
    LET b == Below(Heap, ctx)
    IN /\ _firstChild'[ctx] = _firstChild[ctx]
       /\ childSeq(HeapAfter, ctx) = childSeq(Heap, ctx)
       /\ \A m \in b : SameNode(Heap, HeapAfter, m)
       /\ \A m \in alive' \ (b \cup {ctx}) : _parent'[m] \notin b \cup {ctx}

\* C24. Rejection leaves the context untouched: from the step that produces
\* a candidate to the step that rejects and destroys it, the context of
\* every call in progress keeps its firstChild, its children in their order
\* and what is below them; only the step that attaches a candidate changes
\* the children of a context, those of its own.
C24_Step ==
    /\ \A i \in 1 .. Len(stack) :
        (Later(i) >= 1 /\ ~(i = 1 /\ Accepting)) => Untouched(stack[i].ctx)
    /\ Rejecting =>
        /\ Top.node \notin alive'
        /\ Top.node \notin Below(Heap, Top.ctx)
        /\ Untouched(Top.ctx)

C24_RejectionLeavesContext == [][C24_Step]_vars

\* A malformed token was rejected between two elements that are attached.
C24_Witness ==
    /\ Done
    /\ tokens = <<TSelf("a"), TBad, TSelf("b")>>
    /\ childSeq(Heap, 1) = <<2, 4>>
    /\ alive = {1, 2, 4}

\* The first open element of the input, or 0. No closing tag ends an element
\* (C9, C10): what follows the first open element is parsed inside it.
FirstOpen ==
    LET opens == {i \in 1 .. Len(tokens) : hasContent(tokens[i])}
    IN IF opens = {} THEN 0
       ELSE CHOOSE i \in opens : \A j \in opens : i <= j

\* The tokens that are candidates of the call on the Document.
TopLevel ==
    IF FirstOpen = 0 THEN 1 .. Len(tokens) ELSE 1 .. FirstOpen

\* Token i is rejected for what it is and where it stands: it is malformed,
\* or a declaration inside an element, or a declaration of the Document
\* after a node that is none.
Faulty(i) ==
    \/ ~tokens[i].ok
    \/ /\ tokens[i] = TDecl
       /\ \/ FirstOpen # 0 /\ i > FirstOpen
          \/ \E j \in 1 .. i - 1 : tokens[j].ok /\ tokens[j] # TDecl

\* The tokens inside the candidate made from token i, itself included.
Inside(i) ==
    IF hasContent(tokens[i]) THEN i .. Len(tokens) ELSE {i}

\* The candidate of the Document made from token i holds an error.
HasError(i) == \E j \in Inside(i) : Faulty(j)

\* C25. Only error-free subtrees survive: when the call on the Document has
\* returned, a candidate of the Document with an error anywhere inside it is
\* gone with all that was attached below it, a candidate without error is
\* attached to the Document with all that is inside it, and no error was
\* recorded on the line of a node that is left.
C25_ErrorFreeSurvive ==
    Done =>
        /\ \A i \in TopLevel :
            /\ HasError(i) =>
                    \A j \in Inside(i) : NodeOfToken(j) \notin alive
            /\ ~HasError(i) =>
                    /\ _parent[NodeOfToken(i)] = 1
                    /\ NodeOfToken(i) \in Range(childSeq(Heap, 1))
                    /\ subtreeOf(Heap, NodeOfToken(i), Fuel)
                            = {NodeOfToken(j) : j \in Inside(i)}
        /\ childSeq(Heap, 1) = SelectSeq([i \in 1 .. Len(tokens) |-> NodeOfToken(i)],
                                         LAMBDA n : n - 1 \in TopLevel /\ ~HasError(n - 1))
        /\ \A n \in alive \ {1} : \A k \in 1 .. Len(errors) :
                errors[k].line # _inputLineNum[n]
        /\ (retval = "true") = (\A i \in TopLevel : ~HasError(i))

\* An element is attached; the element after it is gone with the element
\* inside it, for the malformed token that the inner one held.
C25_Witness ==
    /\ Done
    /\ tokens = <<TSelf("c"), TOpen("a"), TOpen("b"), TBad>>
    /\ alive = {1, 2}
    /\ childSeq(Heap, 1) = <<2>>

\* The tokens whose candidate is rejected: the faulty ones, and every open
\* element with a faulty token inside it.
Rejected ==
    {i \in 1 .. Len(tokens) :
        \/ Faulty(i)
        \/ hasContent(tokens[i]) /\ \E j \in i + 1 .. Len(tokens) : Faulty(j)}

\* The open elements around token j, the innermost first.
RECURSIVE Enclosing(_)
Enclosing(j) ==
    IF j <= 1 THEN <<>>
    ELSE IF hasContent(tokens[j - 1])
         THEN <<j - 1>> \o Enclosing(j - 1)
         ELSE Enclosing(j - 1)

\* C26. Diagnostic count per error: a call records exactly one entry for a
\* candidate that it rejects and none for one that it attaches; an error d
\* levels below the Document gives d + 1 entries, its own and one 'parsing
\* error' for each element around it, from the innermost on; the entries of
\* a parse are as many as the rejected candidates, all of them destroyed.
C26_DiagnosticCount ==
    /\ (stack # <<>> /\ Top.pc = "judge") =>
            Len(checkNode(Heap, Top.ctx, Top.node, Top.r)) <= 1
    /\ Len(errors) = Cardinality({LineOfToken(i) : i \in Rejected} \cap
                                 {errors[k].line : k \in 1 .. Len(errors)})
    /\ Done =>
        /\ Len(errors) = Cardinality(Rejected)
        /\ \A i \in Rejected : NodeOfToken(i) \notin alive
        /\ \A j \in 1 .. Len(tokens) :
                ({i \in 1 .. Len(tokens) : Faulty(i)} = {j}) =>
                    LET around == Enclosing(j)
                    IN /\ Len(errors) = Len(around) + 1
                       /\ errors[1].line = LineOfToken(j)
                       /\ \A k \in 1 .. Len(around) :
                            errors[k + 1] = Err(LineOfToken(around[k]), MsgParsing)

\* One malformed token two levels below the Document: three entries.
C26_Witness ==
    /\ Done
    /\ tokens = <<TOpen("a"), TOpen("b"), TBad>>
    /\ errors = <<Err(3, MsgParsing), Err(2, MsgParsing), Err(1, MsgParsing)>>
    /\ alive = {1}

\* The children of ctx that are no declarations.
NonDeclarations(ctx) ==
    {c \in Range(childSeq(Heap, ctx)) : kind[c] # "Declaration"}

\* C27. A misplaced Declaration is reported exactly once: in a context that
\* is no Document, with or without children that are no declarations, the
\* one entry says so; in a Document with one or several children that are
\* no declarations the one entry says that it must be at the beginning, the
\* scan stopping at the first of them; a declaration that is well placed
\* has no entry.
C27_JudgeDeclaration ==
    (stack # <<>> /\ Top.pc = "judge" /\ kind[Top.node] = "Declaration" /\ Top.r) =>
        LET errs == checkNode(Heap, Top.ctx, Top.node, Top.r)
            line == _inputLineNum[Top.node]
        IN /\ Len(errs) <= 1
           /\ kind[Top.ctx] # "Document" =>
                errs = <<Err(line, MsgNotInDocument)>>
           /\ (kind[Top.ctx] = "Document" /\ NonDeclarations(Top.ctx) # {}) =>
                /\ errs = <<Err(line, MsgNotAtBeginning)>>
                /\ Len(declScan(Heap, _firstChild[Top.ctx], Top.node, TRUE, Fuel)) = 1
           /\ (kind[Top.ctx] = "Document" /\ NonDeclarations(Top.ctx) = {}) =>
                errs = <<>>

\* C27, with the entries that two inputs leave: a misplaced declaration has
\* one entry of its own in every parse.
C27_ReportedOnce ==
    /\ C27_JudgeDeclaration
    /\ (Done /\ tokens = <<TOpen("a"), TSelf("b"), TSelf("c"), TDecl>>) =>
            errors = <<Err(4, MsgNotInDocument), Err(1, MsgParsing)>>
    /\ (Done /\ tokens = <<TSelf("a"), TSelf("b"), TDecl>>) =>
            errors = <<Err(3, MsgNotAtBeginning)>>
    /\ Done =>
            Cardinality({k \in 1 .. Len(errors) : errors[k].msg # MsgParsing})
                = Cardinality({i \in 1 .. Len(tokens) : tokens[i] = TDecl /\ Faulty(i)})

\* A declaration inside an element that has two elements already: one
\* entry for it, and one for the element.
C27_Witness ==
    /\ Done
    /\ tokens = <<TOpen("a"), TSelf("b"), TSelf("c"), TDecl>>
    /\ Len(errors) = 2
    /\ errors[1].msg = MsgNotInDocument
====
